---------------------------- MODULE Spec2Model ----------------------------
(***************************************************************************)
(* A model of lander.py: the landing-spot search of Surface, the Lander    *)
(* object and its guidance states (Hover, StopOverLandingSpot, Descend,    *)
(* Stop), and the command that Lander.control prints each tick.            *)
(*                                                                         *)
(* Desired rotations are real valued in the code (speed_h * 0.5,           *)
(* distance * 0.04).  They are kept here as exact fractions [n, d], and    *)
(* round() is Python 3's: to the nearest integer, a tie to the even one.   *)
(* For the integers a run can see, the float products of the code round    *)
(* to the same integers as the exact fractions (n/25 is never within 0.02  *)
(* of a tie, n/2 is exact).                                                *)
(***************************************************************************)
EXTENDS Integers, Sequences, FiniteSets

VARIABLES
    pc,            \* "start" | "crashed" | "constructed" | "loop"
    surface,       \* Surface.list: the terrain points, in input order
    landing_spot,  \* Lander.landing_spot
    state,         \* class of Lander.state
    next_state,    \* Lander.state.next_state
    x, y, speed_h, speed_v, fuel, rotate, power,   \* Lander's telemetry fields
    printed,       \* the command line printed by the latest control()
    entry_state,   \* history: class of Lander.state when the latest tick began
    trace,         \* history: the classes assigned to Lander.state in that tick
    overrun,       \* history: the tick's delegation did not end within MaxHops
    events,        \* history: the distance queries and rare branches of that tick
    raised         \* history: the tick ended in a TypeError

vars == <<pc, surface, landing_spot, state, next_state, x, y, speed_h,
          speed_v, fuel, rotate, power, printed, entry_state, trace, overrun,
          events, raised>>

None == "None"

-----------------------------------------------------------------------------
(* Bounds of the model *)

\* longest terrain profile drawn for the landing-spot search
MaxPoints == 3
\* assignments to Lander.state followed within one tick before giving up
MaxHops == 4

\* terrain coordinates
PointXs == {0, 1000, 1500, 3000}
PointYs == {100, 200}

\* telemetry values
XValues == {-2500, -500, 0, 1000, 1500, 1513, 4500}
YValues == {150, 200, 2000}
SpeedHValues == {-200, -50, -25, -20, 0, 20, 21, 23, 200}
SpeedVValues == {-19, -18, 0, 5}
FuelValues == {500}
RotateValues == {0}
PowerValues == {0}

-----------------------------------------------------------------------------
(* Program constants *)

MAX_ROTATION == 90
MIN_POWER == 0
MAX_POWER == 4
MAX_SPEED == 20
MAX_ANGLE == 45
HOVER_ANGLE == 0
SAFE_DESCENT_SPEED == -18
LANDING_ALTITUDE == 100
\* the literal of Surface.find_safe_spot
MinWidth == 1000
\* the literal of StopOverLandingSpot.update_power
LowAltitude == 100
\* Stop with Hover's gain of 1; StopOverLandingSpot with Descend's 0.01
Stop_scale_hover == [n |-> 1, d |-> 1]
StopOverLandingSpot_scale_descend == [n |-> 1, d |-> 100]
\* self.scale of StopOverLandingSpot, 0.04, and of Stop, 0.5
StopOverLandingSpot_scale == [n |-> 1, d |-> 25]
Stop_scale == [n |-> 1, d |-> 2]
Stop_cutoff == 20

-----------------------------------------------------------------------------
(* Point, LandingSpot, Surface *)

Point(px, py) == [x |-> px, y |-> py]

Points == {Point(px, py) : px \in PointXs, py \in PointYs}

LandingSpot(start, end) ==
    [start |-> start, end |-> end,
     left |-> start.x, right |-> end.x, height |-> start.y]

\* the test without the comparison of the heights
IsSafePair_any_height(old_spot, new_spot) ==
    new_spot.x - old_spot.x >= MinWidth

\* the test of the loop body of find_safe_spot
IsSafePair(old_spot, new_spot) ==
    new_spot.y = old_spot.y /\ new_spot.x - old_spot.x >= MinWidth

\* The loop of find_safe_spot from position i on: s[i] is old_spot, s[i+1]
\* new_spot.  raised stands for the exception after the loop.
RECURSIVE find_from(_, _)
find_from(s, i) ==
    IF i + 1 > Len(s) THEN [raised |-> TRUE]
    ELSE IF IsSafePair(s[i], s[i + 1])
         THEN [raised |-> FALSE, value |-> LandingSpot(s[i], s[i + 1])]
    ELSE find_from(s, i + 1)

\* find_safe_spot without "old_spot = new_spot": every point is compared with
\* the first one
RECURSIVE find_from_first(_, _)
find_from_first(s, i) ==
    IF i + 1 > Len(s) THEN [raised |-> TRUE]
    ELSE IF IsSafePair(s[1], s[i + 1])
         THEN [raised |-> FALSE, value |-> LandingSpot(s[1], s[i + 1])]
    ELSE find_from_first(s, i + 1)

find_safe_spot_stale(s) == find_from_first(s, 1)

find_safe_spot(s) == find_from(s, 1)

-----------------------------------------------------------------------------
(* Desired values and round() *)

Whole(v) == [n |-> v, d |-> 1]

\* v * scale
Times(v, scale) == [n |-> v * scale.n, d |-> scale.d]

\* round() sending a tie away from zero, as Python 2 did
round_half_away(q) ==
    LET fl == q.n \div q.d
        twice == 2 * (q.n - q.d * fl)
    IN  IF twice < q.d THEN fl
        ELSE IF twice > q.d THEN fl + 1
        ELSE IF q.n >= 0 THEN fl + 1 ELSE fl

\* Python 3 round(): nearest integer, a tie goes to the even neighbour
round(q) ==
    LET fl == q.n \div q.d
        twice == 2 * (q.n - q.d * fl)
    IN  IF twice < q.d THEN fl
        ELSE IF twice > q.d THEN fl + 1
        ELSE IF fl % 2 = 0 THEN fl ELSE fl + 1

-----------------------------------------------------------------------------
(* Lander: L is the Lander object, [x, y, speed_h, speed_v, landing_spot] *)

is_over_landing_spot(L) ==
    L.landing_spot.left <= L.x /\ L.x <= L.landing_spot.right

altitude(L) == L.y - L.landing_spot.height

is_left_of_landing_spot(L) == L.x < L.landing_spot.left

is_right_of_landing_spot(L) == L.x > L.landing_spot.right

distance_to_landing_spot(L) ==
    IF is_left_of_landing_spot(L) THEN L.x - L.landing_spot.left
    ELSE IF is_right_of_landing_spot(L) THEN L.x - L.landing_spot.right
    ELSE None

\* which branch of distance_to_landing_spot a query takes
Where(L) ==
    IF is_left_of_landing_spot(L) THEN "left"
    ELSE IF is_right_of_landing_spot(L) THEN "right"
    ELSE "over"

-----------------------------------------------------------------------------
(* The state objects: self is [cls, next_state] *)

\* cls(lander, arg): what each constructor leaves in next_state
New(cls, arg) ==
    [cls |-> cls,
     next_state |-> IF cls = "StopOverLandingSpot" THEN "Descend" ELSE arg]

\* What a control law returns: the desired value, with the distance queries
\* made and the rare branches taken to compute it.  raised: the value is one
\* that control_rotate cannot round (None), a TypeError.
Val(v) == [value |-> v, events |-> <<>>, raised |-> FALSE]

Raise(ev) == [value |-> Whole(0), events |-> ev, raised |-> TRUE]

Mark(ev, o) == [o EXCEPT !.events = <<ev>> \o @]

\* self.lander.distance_to_landing_spot * scale: over the spot the query
\* returns None, and None * scale is a TypeError
ScaledDistance(L, scale) ==
    IF Where(L) = "over" THEN Raise(<< <<"distance", "over">> >>)
    ELSE Mark(<<"distance", Where(L)>>,
              Val(Times(distance_to_landing_spot(L), scale)))

\* What an update_rotation call hands back: the desired rotation, the object
\* left in Lander.state, and the classes assigned to Lander.state on the way.
Ret(o, self, tr) ==
    [value |-> o.value, self |-> self, trace |-> tr, overrun |-> FALSE,
     events |-> o.events, raised |-> o.raised]

Overrun(self, tr) ==
    [value |-> Whole(0), self |-> self, trace |-> tr, overrun |-> TRUE,
     events |-> <<>>, raised |-> FALSE]

\* is_too_fast with a limit of 25, above MAX_SPEED
is_too_fast_loose(L) == ~(-25 <= L.speed_h /\ L.speed_h <= 25)

is_too_fast(L) == ~(-MAX_SPEED <= L.speed_h /\ L.speed_h <= MAX_SPEED)

has_safe_speed(L) == -MAX_SPEED <= L.speed_h /\ L.speed_h <= MAX_SPEED

Hover_update_rotation(L) == Val(Whole(L.speed_h))

\* Descend levelling out only below LANDING_ALTITUDE: >= for >
Descend_update_rotation_ge(L) ==
    IF altitude(L) >= LANDING_ALTITUDE THEN Val(Whole(L.speed_h))
    ELSE Val(Whole(0))

\* Descend steering by the distance with its scale of 0.01, which the class
\* sets and never uses
Descend_update_rotation_distance(L) ==
    IF altitude(L) > LANDING_ALTITUDE
    THEN ScaledDistance(L, [n |-> 1, d |-> 100])
    ELSE Val(Whole(0))

Descend_update_rotation(L) ==
    IF altitude(L) > LANDING_ALTITUDE THEN Val(Whole(L.speed_h))
    ELSE Val(Whole(0))

\* move_towards_landing_spot steering on at the speed limit: <= for <
move_towards_landing_spot_no_hover(L) ==
    IF is_left_of_landing_spot(L) THEN
        IF L.speed_h <= MAX_SPEED
        THEN ScaledDistance(L, StopOverLandingSpot_scale)
        ELSE Mark(<<"branch", "MAX_ANGLE">>, Val(Whole(MAX_ANGLE)))
    ELSE IF is_right_of_landing_spot(L) THEN
        IF L.speed_h >= -MAX_SPEED
        THEN ScaledDistance(L, StopOverLandingSpot_scale)
        ELSE Mark(<<"branch", "MAX_ANGLE">>, Val(Whole(-MAX_ANGLE)))
    ELSE Raise(<< <<"return", "None">> >>)

\* neither left nor right of the spot, the method returns None
move_towards_landing_spot(L) ==
    IF is_left_of_landing_spot(L) THEN
        IF L.speed_h < MAX_SPEED
        THEN ScaledDistance(L, StopOverLandingSpot_scale)
        ELSE IF L.speed_h > MAX_SPEED
             THEN Mark(<<"branch", "MAX_ANGLE">>, Val(Whole(MAX_ANGLE)))
        ELSE Val(Whole(HOVER_ANGLE))
    ELSE IF is_right_of_landing_spot(L) THEN
        IF L.speed_h > -MAX_SPEED
        THEN ScaledDistance(L, StopOverLandingSpot_scale)
        ELSE IF L.speed_h < -MAX_SPEED
             THEN Mark(<<"branch", "MAX_ANGLE">>, Val(Whole(-MAX_ANGLE)))
        ELSE Val(Whole(HOVER_ANGLE))
    ELSE Raise(<< <<"return", "None">> >>)

\* Stop keeping control at the cutoff itself: < for <=
Stop_is_slow_strict(L) == -Stop_cutoff < L.speed_h /\ L.speed_h < Stop_cutoff

\* Stop handing over below a cutoff of 25, above StopOverLandingSpot's MAX_SPEED
Stop_is_slow_wide(L) == -25 <= L.speed_h /\ L.speed_h <= 25

\* Stop.update_rotation's test for handing over to next_state
Stop_is_slow(L) == -Stop_cutoff <= L.speed_h /\ L.speed_h <= Stop_cutoff

RECURSIVE update_rotation(_, _, _)

\* lander.state = new; return lander.state.update_rotation()
Assign(new, L, tr) ==
    IF Len(tr) >= MaxHops THEN Overrun(new, Append(tr, new.cls))
    ELSE update_rotation(new, L, Append(tr, new.cls))

\* transition_to_stop naming Hover, the Lander's default, as the return state
transition_to_stop_hover(self, L, tr) ==
    Assign(New("Stop", "Hover"), L, tr)

\* line 337 names the module's global lander, which is self.lander when the
\* file runs as the program
transition_to_stop(self, L, tr) ==
    Assign(New("Stop", "StopOverLandingSpot"), L, tr)

stop_and_transition_to_next_state(self, L, tr) ==
    IF has_safe_speed(L) THEN Assign(New(self.next_state, None), L, tr)
    ELSE Mark(<<"branch", "not_safe_speed">>, transition_to_stop(self, L, tr))

\* update_rotation testing the position before the speed, and handing over to
\* next_state without asking has_safe_speed
StopOverLandingSpot_update_rotation_position_first(self, L, tr) ==
    IF is_over_landing_spot(L) THEN Assign(New(self.next_state, None), L, tr)
    ELSE IF is_too_fast(L) THEN transition_to_stop(self, L, tr)
    ELSE Ret(move_towards_landing_spot(L), self, tr)

StopOverLandingSpot_update_rotation(self, L, tr) ==
    IF is_too_fast(L) THEN transition_to_stop(self, L, tr)
    ELSE IF is_over_landing_spot(L)
         THEN stop_and_transition_to_next_state(self, L, tr)
    ELSE Ret(move_towards_landing_spot(L), self, tr)

\* Stop installing next_state but returning its own rotation for the tick
Stop_update_rotation_late(self, L, tr) ==
    IF Stop_is_slow(L)
    THEN Ret(Val(Times(L.speed_h, Stop_scale)), New(self.next_state, None),
             Append(tr, self.next_state))
    ELSE Ret(Val(Times(L.speed_h, Stop_scale)), self, tr)

Stop_update_rotation(self, L, tr) ==
    IF Stop_is_slow(L) THEN Assign(New(self.next_state, None), L, tr)
    ELSE Ret(Val(Times(L.speed_h, Stop_scale)), self, tr)

update_rotation(self, L, tr) ==
    CASE self.cls = "Hover" -> Ret(Hover_update_rotation(L), self, tr)
      [] self.cls = "Descend" -> Ret(Descend_update_rotation(L), self, tr)
      [] self.cls = "StopOverLandingSpot" ->
             StopOverLandingSpot_update_rotation(self, L, tr)
      [] self.cls = "Stop" -> Stop_update_rotation(self, L, tr)

\* Hover cutting the thrust when the vehicle rises
Hover_update_power_off(L) == IF L.speed_v > 0 THEN 0 ELSE 4

Hover_update_power(L) == IF L.speed_v > 0 THEN 3 ELSE 4

StopOverLandingSpot_update_power(L) ==
    IF altitude(L) < LowAltitude /\ ~is_over_landing_spot(L) THEN 4
    ELSE IF L.speed_v > -18 THEN 3
    ELSE 4

is_not_safe_to_land(L) ==
    altitude(L) < LANDING_ALTITUDE /\ ~is_over_landing_spot(L)

descent_is_too_fast(L) == L.speed_v < SAFE_DESCENT_SPEED

Descend_update_power(L) ==
    IF is_not_safe_to_land(L) THEN 4
    ELSE IF descent_is_too_fast(L) THEN 4
    ELSE 3

\* Stop deriving from StopOverLandingSpot instead of Hover
update_power_stop_approach(self, L) ==
    CASE self.cls \in {"StopOverLandingSpot", "Stop"} ->
             StopOverLandingSpot_update_power(L)
      [] self.cls = "Descend" -> Descend_update_power(L)
      [] OTHER -> Hover_update_power(L)

\* Stop inherits Hover's update_power
update_power(self, L) ==
    CASE self.cls = "StopOverLandingSpot" -> StopOverLandingSpot_update_power(L)
      [] self.cls = "Descend" -> Descend_update_power(L)
      [] OTHER -> Hover_update_power(L)

\* limit_rotation with the upper limit forgotten
limit_rotation_no_upper(value) ==
    LET desired_rotation == round(value)
    IN  IF desired_rotation < -MAX_ROTATION THEN -MAX_ROTATION
        ELSE desired_rotation

\* State.control_rotate after update_rotation: round, then limit
limit_rotation(value) ==
    LET desired_rotation == round(value)
    IN  IF desired_rotation > MAX_ROTATION THEN MAX_ROTATION
        ELSE IF desired_rotation < -MAX_ROTATION THEN -MAX_ROTATION
        ELSE desired_rotation

\* State.control_power
control_power(self, L) ==
    LET desired_power == round(Whole(update_power(self, L)))
    IN  IF desired_power < MIN_POWER THEN MIN_POWER
        ELSE IF desired_power > MAX_POWER THEN MAX_POWER
        ELSE desired_power

\* control asking the power of the state that was active when the tick began
control_stale_power(self, L) ==
    LET r == update_rotation(self, L, <<>>)
    IN  [rotate |-> IF r.overrun \/ r.raised THEN 0
                    ELSE limit_rotation(r.value),
         power |-> control_power(self, L),
         self |-> r.self, trace |-> r.trace, overrun |-> r.overrun,
         events |-> r.events, raised |-> r.raised]

\* Lander.control: the format arguments are evaluated left to right, so the
\* power is asked of the state that computing the rotation left active.
control(self, L) ==
    LET r == update_rotation(self, L, <<>>)
    IN  [rotate |-> IF r.overrun \/ r.raised THEN 0
                    ELSE limit_rotation(r.value),
         power |-> control_power(r.self, L),
         self |-> r.self, trace |-> r.trace, overrun |-> r.overrun,
         events |-> r.events, raised |-> r.raised]

-----------------------------------------------------------------------------
(* The program *)

\* the terrains the tick loop is run over
Terrains ==
    { <<Point(0, 100), Point(1000, 100), Point(2000, 150)>>,
      <<Point(0, 200), Point(500, 200), Point(2000, 200)>>,
      <<Point(0, 100), Point(500, 100), Point(1500, 200)>> }

\* every terrain of 2..MaxPoints points, in any order
AllSurfaces == UNION { [1..n -> Points] : n \in 2..MaxPoints }

Blank ==
    /\ pc = "start"
    /\ landing_spot = None /\ state = None /\ next_state = None
    /\ x = None /\ y = None /\ speed_h = None /\ speed_v = None
    /\ fuel = None /\ rotate = None /\ power = None
    /\ printed = <<>> /\ entry_state = None /\ trace = <<>>
    /\ overrun = FALSE /\ events = <<>> /\ raised = FALSE

Init == surface \in Terrains /\ Blank

InitSurface == surface \in AllSurfaces /\ Blank

\* lines 410-415: the search for the landing spot and Lander(surface).  The
\* exception of find_safe_spot ends the program before a Lander exists.
NewLander ==
    /\ pc = "start"
    /\ IF find_safe_spot(surface).raised
       THEN /\ pc' = "crashed"
            /\ UNCHANGED <<landing_spot, state, next_state>>
       ELSE /\ pc' = "constructed"
            /\ state' = "Hover"
            /\ next_state' = None
            /\ landing_spot' = find_safe_spot(surface).value
    /\ UNCHANGED <<surface, x, y, speed_h, speed_v, fuel, rotate, power,
                   printed, entry_state, trace, overrun, events, raised>>

\* line 416: lander.state = StopOverLandingSpot(lander).  The call as written
\* leaves out the next_state argument that __init__ (line 280) requires; the
\* constructor sets next_state to Descend whatever it is given (line 294),
\* and the state is modelled as constructed with None, as Stop constructs it
\* (line 396).
SetState ==
    /\ pc = "constructed"
    /\ pc' = "loop"
    /\ state' = New("StopOverLandingSpot", None).cls
    /\ next_state' = New("StopOverLandingSpot", None).next_state
    /\ UNCHANGED <<surface, landing_spot, x, y, speed_h, speed_v, fuel,
                   rotate, power, printed, entry_state, trace, overrun,
                   events, raised>>

\* One pass of the game loop: update_state(*args), then control().  A Lander
\* left in its constructor's Hover state can be ticked as well.  The *_old
\* copies update_state keeps are read by nothing and are left out.  A tick
\* whose computation raises prints nothing and ends the program.
Tick ==
    /\ pc \in {"constructed", "loop"}
    /\ \E nx \in XValues, ny \in YValues, nh \in SpeedHValues,
          nv \in SpeedVValues, nf \in FuelValues, nr \in RotateValues,
          np \in PowerValues :
        \E c \in {control([cls |-> state, next_state |-> next_state],
                           [x |-> nx, y |-> ny, speed_h |-> nh,
                            speed_v |-> nv, landing_spot |-> landing_spot])} :
            /\ x' = nx /\ y' = ny /\ speed_h' = nh /\ speed_v' = nv
            /\ fuel' = nf /\ rotate' = nr /\ power' = np
            /\ entry_state' = state
            /\ state' = c.self.cls
            /\ next_state' = c.self.next_state
            /\ trace' = c.trace
            /\ overrun' = c.overrun
            /\ events' = c.events
            /\ raised' = c.raised
            /\ IF c.overrun \/ c.raised
               THEN pc' = "crashed" /\ printed' = <<>>
               ELSE pc' = "loop"
                    /\ printed' = <<[rotate |-> c.rotate, power |-> c.power]>>
    /\ UNCHANGED <<surface, landing_spot>>

Next == NewLander \/ SetState \/ Tick

Spec == Init /\ [][Next]_vars

\* the landing-spot search alone, over every terrain
SpecSurface == InitSurface /\ [][NewLander]_vars

-----------------------------------------------------------------------------
(* Properties *)

\* the Lander object as the latest tick left it
Now ==
    [x |-> x, y |-> y, speed_h |-> speed_h, speed_v |-> speed_v,
     landing_spot |-> landing_spot]

\* a tick has been processed: printed, entry_state and trace describe it
Ticked == printed # <<>>

Abs(v) == IF v < 0 THEN -v ELSE v

\* C1: every command a tick prints has its rotation in [-90, 90] and its power
\* in [0, 4], whatever the active state and however many transitions the
\* tick made.
C1_CommandInEnvelope ==
    Ticked =>
        /\ printed[1].rotate \in -90..90
        /\ printed[1].power \in 0..4

\* a tick from Stop that went on to StopOverLandingSpot and Descend, and a
\* tick whose rotation was cut to the limit
C1_Witness ==
    /\ Ticked
    /\ \/ entry_state = "Stop" /\ Len(trace) = 2
       \/ state = "Stop" /\ speed_h = 200 /\ printed[1].rotate = 90

\* the assignments to Lander.state that the claims allow
Edges ==
    { <<"StopOverLandingSpot", "Stop">>,
      <<"Stop", "StopOverLandingSpot">>,
      <<"StopOverLandingSpot", "Descend">> }

\* the active state at the start of the tick, then every state the tick
\* assigned
Chain == <<entry_state>> \o trace

\* C2: from StopOverLandingSpot on, every replacement of the active state is
\* StopOverLandingSpot -> Stop, Stop -> StopOverLandingSpot or
\* StopOverLandingSpot -> Descend; a tick that starts in Descend ends in
\* Descend, and a tick that does not start in Hover does not end in Hover.
C2_OnlyThreeEdges ==
    Ticked =>
        /\ \A i \in 1..Len(trace) : <<Chain[i], Chain[i + 1]>> \in Edges
        /\ state = Chain[Len(Chain)]
        /\ entry_state = "Descend" => state = "Descend"
        /\ entry_state # "Hover" => state # "Hover"

\* a tick in Descend, with a telemetry that would send StopOverLandingSpot on
\* to Stop
C2_Witness ==
    /\ Ticked /\ entry_state = "Descend" /\ state = "Descend"
    /\ speed_h = 200

\* C3: a tick assigns Descend only with landing_spot.left <= x <=
\* landing_spot.right and |speed_h| <= 20; at x = landing_spot.left a tick of
\* StopOverLandingSpot ends in Descend for speed_h = 20 and in Stop for
\* speed_h = 21.
C3_DescendGuard ==
    Ticked =>
        /\ (\E i \in 1..Len(trace) : trace[i] = "Descend") =>
              /\ landing_spot.left <= x /\ x <= landing_spot.right
              /\ Abs(speed_h) <= 20
        /\ (entry_state = "StopOverLandingSpot" /\ x = landing_spot.left
              /\ speed_h = 20) => state = "Descend"
        /\ (entry_state = "StopOverLandingSpot" /\ x = landing_spot.left
              /\ speed_h = 21) => state = "Stop"

\* the boundary tick that enters Descend
C3_Witness ==
    /\ Ticked /\ entry_state = "StopOverLandingSpot"
    /\ x = landing_spot.left /\ speed_h = 20 /\ trace = <<"Descend">>

\* C4: a tick that starts in Stop with |speed_h| <= 20 hands over to
\* StopOverLandingSpot at once, and prints the command, and ends in the state,
\* that a tick started in StopOverLandingSpot gives for the same telemetry.
C4_LookaheadMatches ==
    (Ticked /\ entry_state = "Stop" /\ Abs(speed_h) <= 20) =>
        LET ref == control(New("StopOverLandingSpot", None), Now)
        IN  /\ trace # <<>> /\ trace[1] = "StopOverLandingSpot"
            /\ printed[1].rotate = ref.rotate
            /\ printed[1].power = ref.power
            /\ state = ref.self.cls
            /\ next_state = ref.self.next_state

\* a handover from Stop that stays in StopOverLandingSpot, where the two
\* classes' power rules differ
C4_Witness ==
    /\ Ticked /\ entry_state = "Stop" /\ Abs(speed_h) <= 20
    /\ state = "StopOverLandingSpot" /\ printed[1].power = 3 /\ speed_v = 0

\* C5: a tick assigns Lander.state at most twice and its delegation ends.
C5_AtMostTwoHops ==
    /\ ~overrun
    /\ pc = "crashed" => entry_state = None
    /\ Len(trace) <= 2

\* the longest chain: Stop -> StopOverLandingSpot -> Descend
C5_Witness ==
    /\ Ticked /\ entry_state = "Stop"
    /\ trace = <<"StopOverLandingSpot", "Descend">>

\* an adjacent pair of the terrain that can serve as a landing spot
Qualifies(i) ==
    /\ surface[i].y = surface[i + 1].y
    /\ surface[i + 1].x - surface[i].x >= 1000

\* C7: find_safe_spot returns the spot of the first adjacent pair, in terrain
\* order, of equal height and at least 1000 apart, with left < right; it
\* returns one whenever there is such a pair.
C7_FirstPairWins ==
    /\ pc = "constructed" =>
          /\ \E i \in 1..(Len(surface) - 1) :
                /\ Qualifies(i)
                /\ \A j \in 1..(i - 1) : ~Qualifies(j)
                /\ landing_spot.left = surface[i].x
                /\ landing_spot.right = surface[i + 1].x
                /\ landing_spot.height = surface[i].y
          /\ landing_spot.left < landing_spot.right
    /\ (pc # "start" /\ \E i \in 1..(Len(surface) - 1) : Qualifies(i)) =>
          pc = "constructed"
    /\ (pc = "constructed"
          /\ surface = <<Point(0, 100), Point(1000, 100), Point(1500, 200)>>) =>
          /\ landing_spot.left = 0 /\ landing_spot.right = 1000
          /\ landing_spot.height = 100

\* the first pair is taken although the second one is wider; and a terrain
\* whose first pair does not qualify
C7_Witness ==
    /\ pc = "constructed"
    /\ \/ /\ surface = <<Point(0, 100), Point(1000, 100), Point(3000, 100)>>
          /\ landing_spot.right = 1000
       \/ /\ surface = <<Point(0, 200), Point(1000, 100), Point(3000, 100)>>
          /\ landing_spot.left = 1000

\* C8: without an adjacent pair of equal height at least 1000 apart the
\* search raises, no Lander is constructed, no state is active and no command
\* is printed.
C8_NoSpotNoLander ==
    (\A i \in 1..(Len(surface) - 1) : ~Qualifies(i)) =>
        /\ pc \in {"start", "crashed"}
        /\ landing_spot = None
        /\ state = None
        /\ printed = <<>>

\* the program ended by the exception
C8_Witness ==
    /\ pc = "crashed"
    /\ \A i \in 1..(Len(surface) - 1) : ~Qualifies(i)
    /\ state = None

\* v is speed_h * 0.5 rounded to an integer and cut to [-90, 90]
IsHalfSpeedRotation(v) ==
    IF speed_h > 180 THEN v = 90
    ELSE IF speed_h < -180 THEN v = -90
    ELSE 2 * v - speed_h \in -1..1

\* C9: a tick that starts in StopOverLandingSpot with |speed_h| > 20, over
\* the spot or not, ends in Stop with StopOverLandingSpot as its next_state
\* and prints speed_h * 0.5, rounded and cut to [-90, 90], as the rotation;
\* spot (0, 1000, 100) and telemetry (1500, 2000, -50, 0) give -25.
C9_TooFastGoesToStop ==
    /\ (Ticked /\ entry_state = "StopOverLandingSpot" /\ Abs(speed_h) > 20) =>
          /\ trace = <<"Stop">>
          /\ state = "Stop" /\ next_state = "StopOverLandingSpot"
          /\ IsHalfSpeedRotation(printed[1].rotate)
    /\ (Ticked /\ entry_state = "StopOverLandingSpot"
          /\ landing_spot.left = 0 /\ landing_spot.right = 1000
          /\ landing_spot.height = 100
          /\ x = 1500 /\ y = 2000 /\ speed_h = -50 /\ speed_v = 0) =>
          printed[1].rotate = -25

\* the scenario of the claim
C9_Witness ==
    /\ Ticked /\ entry_state = "StopOverLandingSpot" /\ state = "Stop"
    /\ landing_spot.left = 0 /\ landing_spot.right = 1000
    /\ landing_spot.height = 100
    /\ x = 1500 /\ y = 2000 /\ speed_h = -50 /\ speed_v = 0
    /\ printed[1].rotate = -25

\* C10 as claimed: StopOverLandingSpot, 500 left of the spot's left edge with
\* speed_h = 0, prints the rotation 20.
C10_LeftOfSpotTurnsPlus20 ==
    (Ticked /\ entry_state = "StopOverLandingSpot"
       /\ x < landing_spot.left /\ landing_spot.left - x = 500
       /\ speed_h = 0) =>
        printed[1].rotate = 20

\* C10, amended: there distance_to_landing_spot is x - left = -500, and the
\* rotation printed is -500 * 0.04 = -20; it is 20 when the vehicle is 500
\* right of the spot's right edge.
C10_LeftOfSpotTurnsMinus20 ==
    /\ (Ticked /\ entry_state = "StopOverLandingSpot"
          /\ x < landing_spot.left /\ landing_spot.left - x = 500
          /\ speed_h = 0) =>
          /\ distance_to_landing_spot(Now) = -500
          /\ state = "StopOverLandingSpot"
          /\ printed[1].rotate = -20
    /\ (Ticked /\ entry_state = "StopOverLandingSpot"
          /\ x > landing_spot.right /\ x - landing_spot.right = 500
          /\ speed_h = 0) =>
          /\ distance_to_landing_spot(Now) = 500
          /\ state = "StopOverLandingSpot"
          /\ printed[1].rotate = 20

\* the vehicle 500 left of the spot, at rest
C10_Witness ==
    /\ Ticked /\ entry_state = "StopOverLandingSpot"
    /\ x < landing_spot.left /\ landing_spot.left - x = 500
    /\ speed_h = 0 /\ printed[1].rotate = -20

\* v cut to [-90, 90]
Cut90(v) == IF v > 90 THEN 90 ELSE IF v < -90 THEN -90 ELSE v

\* C11 as claimed: a tick that ends in Stop with an odd speed_h prints
\* speed_h * 0.5 with the half rounded away from zero (21 gives 11, -25 gives
\* -13), cut to [-90, 90].
C11_TiesAwayFromZero ==
    (Ticked /\ state = "Stop" /\ speed_h % 2 = 1) =>
        /\ printed[1].rotate =
              Cut90(IF speed_h > 0 THEN (speed_h + 1) \div 2
                    ELSE (speed_h - 1) \div 2)
        /\ speed_h = 21 => printed[1].rotate = 11
        /\ speed_h = -25 => printed[1].rotate = -13

\* C11, amended: the half is rounded to the even neighbour (21 gives 10, 23
\* gives 12, -25 gives -12), then cut to [-90, 90].
C11_TiesToEven ==
    (Ticked /\ state = "Stop" /\ speed_h % 2 = 1) =>
        /\ \E e \in {(speed_h - 1) \div 2, (speed_h + 1) \div 2} :
              e % 2 = 0 /\ printed[1].rotate = Cut90(e)
        /\ speed_h = 21 => printed[1].rotate = 10
        /\ speed_h = 23 => printed[1].rotate = 12
        /\ speed_h = -25 => printed[1].rotate = -12

\* the tie 10.5, printed as 10
C11_Witness ==
    /\ Ticked /\ state = "Stop" /\ speed_h = 21 /\ printed[1].rotate = 10

IsScaledDistanceRotation(d, v) ==
    IF d > 2250 THEN v = 90
    ELSE IF d < -2250 THEN v = -90
    ELSE 25 * v - d \in -12..12

C14_DescendLaw ==
    (Ticked /\ state = "Descend") =>
        /\ printed[1].rotate =
              IF y - landing_spot.height > 100 THEN Cut90(speed_h) ELSE 0
        /\ printed[1].power =
              IF (y - landing_spot.height < 100
                    /\ ~(landing_spot.left <= x /\ x <= landing_spot.right))
                 \/ speed_v < -18
              THEN 4 ELSE 3

\* Descend at altitude 100 exactly: level, whatever the horizontal speed
C14_Witness ==
    /\ Ticked /\ entry_state = "Descend" /\ state = "Descend"
    /\ y - landing_spot.height = 100 /\ speed_h = 200
    /\ printed[1].rotate = 0

\* C15: a tick that ends in Stop, the tick that enters it included, and a
\* tick in Hover print power 3 if speed_v > 0 and 4 otherwise, whatever the
\* altitude and the position; Hover prints speed_h cut to [-90, 90] as
\* rotation.
C15_HoverPower ==
    (Ticked /\ state \in {"Stop", "Hover"}) =>
        /\ printed[1].power = IF speed_v > 0 THEN 3 ELSE 4
        /\ state = "Hover" => printed[1].rotate = Cut90(speed_h)

\* entering Stop low and off the spot, where StopOverLandingSpot prints 4
C15_Witness ==
    /\ Ticked /\ entry_state = "StopOverLandingSpot" /\ state = "Stop"
    /\ y - landing_spot.height < 100 /\ x > landing_spot.right
    /\ speed_v = 5 /\ printed[1].power = 3

\* C16: no tick queries distance_to_landing_spot with the vehicle over the
\* spot; every query is made left or right of it and yields an offset that is
\* not 0, and no tick ends in the TypeError that a None distance would raise.
C16_DistanceOnlyOffSpot ==
    /\ ~raised
    /\ \A i \in 1..Len(events) :
          events[i][1] = "distance" =>
              /\ events[i][2] \in {"left", "right"}
              /\ ~(landing_spot.left <= x /\ x <= landing_spot.right)
              /\ distance_to_landing_spot(Now) # 0

\* a query right of the spot
C16_Witness ==
    /\ Ticked /\ events = << <<"distance", "right">> >>
    /\ x - landing_spot.right = 513

\* C17: at the end of a tick that did not start in Hover: Stop is active only
\* with |speed_h| > 20; StopOverLandingSpot only with |speed_h| <= 20 and the
\* vehicle off the spot; and a tick that started in StopOverLandingSpot or
\* Stop with |speed_h| <= 20 over the spot ends in Descend.
C17_StateFollowsTelemetry ==
    (Ticked /\ entry_state # "Hover") =>
        /\ state = "Stop" => Abs(speed_h) > 20
        /\ state = "StopOverLandingSpot" =>
              /\ Abs(speed_h) <= 20
              /\ ~(landing_spot.left <= x /\ x <= landing_spot.right)
        /\ (entry_state \in {"StopOverLandingSpot", "Stop"}
              /\ Abs(speed_h) <= 20
              /\ landing_spot.left <= x /\ x <= landing_spot.right) =>
              state = "Descend"

\* Stop keeps control just above the cutoff
C17_Witness ==
    /\ Ticked /\ entry_state = "Stop" /\ state = "Stop" /\ speed_h = 21

\* C18: control() called again on the telemetry of the tick, from the state
\* the tick left active, prints the same rotation and power and assigns
\* Lander.state no more.
C18_Fixpoint ==
    Ticked =>
        LET again == control([cls |-> state, next_state |-> next_state], Now)
        IN  /\ ~again.overrun /\ ~again.raised
            /\ again.rotate = printed[1].rotate
            /\ again.power = printed[1].power
            /\ again.trace = <<>>
            /\ again.self.cls = state
            /\ again.self.next_state = next_state

\* a tick that changed the state
C18_Witness ==
    /\ Ticked /\ entry_state = "StopOverLandingSpot" /\ trace = <<"Stop">>
    /\ speed_h = -200

\* no tick takes a MAX_ANGLE branch of move_towards_landing_spot or the
\* else branch of stop_and_transition_to_next_state
NoDeadBranch ==
    \A i \in 1..Len(events) :
        events[i] \notin { <<"branch", "MAX_ANGLE">>,
                           <<"branch", "not_safe_speed">> }

\* C19 as claimed: those branches are never taken, and whenever |speed_h| > 20
\* in a tick outside Descend the rotation printed is speed_h * 0.5, rounded
\* and cut to [-90, 90].
C19_HalfSpeedOutsideDescend ==
    /\ NoDeadBranch
    /\ (Ticked /\ entry_state # "Descend" /\ Abs(speed_h) > 20) =>
          IsHalfSpeedRotation(printed[1].rotate)

\* C19, amended: those branches are never taken, and whenever |speed_h| > 20
\* in a tick that starts in StopOverLandingSpot or Stop (not in Descend, nor
\* in Hover, which prints speed_h itself) the tick ends in Stop and the
\* rotation printed is speed_h * 0.5, rounded and cut to [-90, 90].
C19_HalfSpeedFromApproachOrStop ==
    /\ NoDeadBranch
    /\ (entry_state \in {"StopOverLandingSpot", "Stop"}
          /\ Abs(speed_h) > 20) =>
          /\ Ticked /\ state = "Stop"
          /\ IsHalfSpeedRotation(printed[1].rotate)

\* left of the spot and faster than MAX_SPEED towards it, where the MAX_ANGLE
\* branch would apply
C19_Witness ==
    /\ Ticked /\ entry_state = "StopOverLandingSpot"
    /\ x < landing_spot.left /\ speed_h = 23
    /\ state = "Stop" /\ printed[1].rotate = 12

\* C20: every command printed has power 3 or 4.
C20_PowerThreeOrFour ==
    Ticked => printed[1].power \in {3, 4}

\* Descend at the safe descent speed: the lower of the two powers
C20_Witness ==
    /\ Ticked /\ state = "Descend" /\ speed_v = -18 /\ printed[1].power = 3

=============================================================================
